---- MODULE Spec2Model ----
(***************************************************************************)
(* A model of the static analysis behind the generate_dot_env management   *)
(* command of django-configurations: the visitor that recognises the       *)
(* values.*Value(...) constructor calls of a settings module               *)
(* (CustomisableVariablesFinder), the descriptors it builds (EnvVar and    *)
(* its subclasses) and the formatter (Command.dump).                       *)
(*                                                                         *)
(* Python strings are sequences of one-character strings, so that slicing, *)
(* joining, stripping and ordinal comparison are computed, not assumed.    *)
(* The parsed module is a sequence of statements in source order; a        *)
(* statement records whether it stands at module level or in the body of a *)
(* class, because ast.walk is breadth-first while NodeVisitor is           *)
(* depth-first.                                                            *)
(***************************************************************************)
EXTENDS Naturals, Sequences, FiniteSets, TLC

VARIABLES
    module,      \* "utils": generate_dot_env_utils.py; "command": commands/generate_dot_env.py
    _tree,       \* CustomisableVariablesFinder._tree
    _variables,  \* CustomisableVariablesFinder._variables: None or a list of EnvVar
    _noname,     \* CustomisableVariablesFinder._noname: None or the pending EnvVar
    pc,          \* where the caller stands: "new", "visit", "done", "raised", "dumped",
                 \* "read", "raised_read"
    pos,         \* index in _tree of the statement NodeVisitor visits next
    sort,        \* the sort argument of Command.dump
    output       \* the string Command.dump returned: None or a text

vars == <<module, _tree, _variables, _noname, pc, pos, sort, output>>

-----------------------------------------------------------------------------
(* Bounds of the model *)

MaxStmts == 2

-----------------------------------------------------------------------------
(* Text *)

s_DJANGO == <<"D", "J", "A", "N", "G", "O">>
s_String == <<"S", "t", "r", "i", "n", "g">>
s_Value == <<"V", "a", "l", "u", "e">>
s_Variable == <<"V", "a", "r", "i", "a", "b", "l", "e", ":", " ">>
s_None == <<"N", "o", "n", "e">>
s_True == <<"T", "r", "u", "e">>
s_False == <<"F", "a", "l", "s", "e">>
s_values == <<"v", "a", "l", "u", "e", "s">>
kw_default == <<"d", "e", "f", "a", "u", "l", "t">>
kw_environ_name == <<"e", "n", "v", "i", "r", "o", "n", "_", "n", "a", "m", "e">>
kw_environ_prefix == <<"e", "n", "v", "i", "r", "o", "n", "_", "p", "r", "e", "f", "i", "x">>
kw_environ_required == <<"e", "n", "v", "i", "r", "o", "n", "_", "r", "e", "q", "u", "i", "r", "e", "d">>
kw_alias == <<"a", "l", "i", "a", "s">>
kw_converter == <<"c", "o", "n", "v", "e", "r", "t", "e", "r">>
kw_environ == <<"e", "n", "v", "i", "r", "o", "n">>
kw_separator == <<"s", "e", "p", "a", "r", "a", "t", "o", "r">>
kw_seq_separator == <<"s", "e", "q", "_", "s", "e", "p", "a", "r", "a", "t", "o", "r">>
kw_regex == <<"r", "e", "g", "e", "x">>
kw_checks_exists == <<"c", "h", "e", "c", "k", "s", "_", "e", "x", "i", "s", "t", "s">>
kw_late_binding == <<"l", "a", "t", "e", "_", "b", "i", "n", "d", "i", "n", "g">>
s_export == <<"e", "x", "p", "o", "r", "t", " ">>
s_hash == <<"#", " ">>
s_colon == <<":", " ">>

c_Value == <<"V", "a", "l", "u", "e">>
c_BooleanValue == <<"B", "o", "o", "l", "e", "a", "n", "V", "a", "l", "u", "e">>
c_IntegerValue == <<"I", "n", "t", "e", "g", "e", "r", "V", "a", "l", "u", "e">>
c_PositiveIntegerValue == <<"P", "o", "s", "i", "t", "i", "v", "e", "I", "n", "t", "e", "g", "e", "r", "V", "a", "l", "u", "e">>
c_FloatValue == <<"F", "l", "o", "a", "t", "V", "a", "l", "u", "e">>
c_DecimalValue == <<"D", "e", "c", "i", "m", "a", "l", "V", "a", "l", "u", "e">>
c_ListValue == <<"L", "i", "s", "t", "V", "a", "l", "u", "e">>
c_TupleValue == <<"T", "u", "p", "l", "e", "V", "a", "l", "u", "e">>
c_SingleNestedListValue == <<"S", "i", "n", "g", "l", "e", "N", "e", "s", "t", "e", "d", "L", "i", "s", "t", "V", "a", "l", "u", "e">>
c_SingleNestedTupleValue == <<"S", "i", "n", "g", "l", "e", "N", "e", "s", "t", "e", "d", "T", "u", "p", "l", "e", "V", "a", "l", "u", "e">>
c_SetValue == <<"S", "e", "t", "V", "a", "l", "u", "e">>
c_DictValue == <<"D", "i", "c", "t", "V", "a", "l", "u", "e">>
c_EmailValue == <<"E", "m", "a", "i", "l", "V", "a", "l", "u", "e">>
c_URLValue == <<"U", "R", "L", "V", "a", "l", "u", "e">>
c_IPValue == <<"I", "P", "V", "a", "l", "u", "e">>
c_RegexValue == <<"R", "e", "g", "e", "x", "V", "a", "l", "u", "e">>
c_PathValue == <<"P", "a", "t", "h", "V", "a", "l", "u", "e">>
c_DatabaseURLValue == <<"D", "a", "t", "a", "b", "a", "s", "e", "U", "R", "L", "V", "a", "l", "u", "e">>
c_CacheURLValue == <<"C", "a", "c", "h", "e", "U", "R", "L", "V", "a", "l", "u", "e">>
c_EmailURLValue == <<"E", "m", "a", "i", "l", "U", "R", "L", "V", "a", "l", "u", "e">>
c_SearchURLValue == <<"S", "e", "a", "r", "c", "h", "U", "R", "L", "V", "a", "l", "u", "e">>
c_BackendsValue == <<"B", "a", "c", "k", "e", "n", "d", "s", "V", "a", "l", "u", "e">>
c_SecretValue == <<"S", "e", "c", "r", "e", "t", "V", "a", "l", "u", "e">>

s_comma == <<",">>
s_semicolon == <<";">>
s_brackets == <<"[", "]">>
s_parens == <<"(", ")">>
s_braces == <<"{", "}">>
s_newline == <<"\n">>

Digits == <<"0", "1", "2", "3", "4", "5", "6", "7", "8", "9">>

RECURSIVE int_str(_)
int_str(n) ==
    IF n < 10 THEN <<Digits[n + 1]>>
    ELSE int_str(n \div 10) \o <<Digits[(n % 10) + 1]>>

RECURSIVE join(_, _)
join(sep, texts) ==
    IF texts = <<>> THEN <<>>
    ELSE IF Len(texts) = 1 THEN texts[1]
    ELSE texts[1] \o sep \o join(sep, Tail(texts))

IsSpace(c) == c \in {" ", "\n", "\t"}

RECURSIVE lstrip(_)
lstrip(t) ==
    IF t # <<>> /\ IsSpace(t[1]) THEN lstrip(Tail(t)) ELSE t

RECURSIVE rstrip(_)
rstrip(t) ==
    IF t # <<>> /\ IsSpace(t[Len(t)]) THEN rstrip(SubSeq(t, 1, Len(t) - 1)) ELSE t

strip(t) == rstrip(lstrip(t))

-----------------------------------------------------------------------------
(* Python values: None, True and str; optional references *)

None == <<>>
Some(x) == <<x>>

PyNone == [tag |-> "None", s |-> <<>>]
PyTrue == [tag |-> "True", s |-> <<>>]
PyStr(s) == [tag |-> "str", s |-> s]

str(v) ==
    CASE v.tag = "None" -> s_None
      [] v.tag = "True" -> s_True
      [] OTHER -> v.s

bool(v) ==
    CASE v.tag = "None" -> FALSE
      [] v.tag = "True" -> TRUE
      [] OTHER -> v.s # <<>>

-----------------------------------------------------------------------------
(* The syntax tree (module ast) *)

Node(kind, s, n, ctx, func, elts, keywords) ==
    [kind |-> kind, s |-> s, n |-> n, ctx |-> ctx, func |-> func, elts |-> elts,
     keywords |-> keywords]

Str(s) == Node("Str", s, 0, "", <<>>, <<>>, <<>>)
Num(n) == Node("Num", <<>>, n, "", <<>>, <<>>, <<>>)
NameConstant(s) == Node("NameConstant", s, 0, "", <<>>, <<>>, <<>>)
Name(id, ctx) == Node("Name", id, 0, ctx, <<>>, <<>>, <<>>)
Attribute(value, attr) == Node("Attribute", attr, 0, "Load", <<>>, <<value>>, <<>>)
List(elts) == Node("List", <<>>, 0, "Load", <<>>, elts, <<>>)
Tuple(elts) == Node("Tuple", <<>>, 0, "Load", <<>>, elts, <<>>)
Set(elts) == Node("Set", <<>>, 0, "", <<>>, elts, <<>>)
Call(func, args, keywords) == Node("Call", <<>>, 0, "", <<func>>, args, keywords)
keyword(arg, value) == [arg |-> arg, value |-> value]

Assign(targets, value, nested) ==
    [kind |-> "Assign", targets |-> targets, value |-> value, nested |-> nested]
Expr(value, nested) ==
    [kind |-> "Expr", targets |-> <<>>, value |-> value, nested |-> nested]

IsSequenceLiteral(node) == node.kind \in {"List", "Tuple", "Set"}

(* astor.to_source: the normalised source text of a node, with its newline *)
RECURSIVE source(_)
RECURSIVE sources(_)
RECURSIVE keyword_sources(_)
source(node) ==
    CASE node.kind = "Str" -> <<"'">> \o node.s \o <<"'">>
      [] node.kind = "Num" -> int_str(node.n)
      [] node.kind \in {"NameConstant", "Name"} -> node.s
      [] node.kind = "Attribute" -> source(node.elts[1]) \o <<".">> \o node.s
      [] node.kind = "List" -> <<"[">> \o join(<<",", " ">>, sources(node.elts)) \o <<"]">>
      [] node.kind = "Tuple" ->
            IF Len(node.elts) = 1 THEN <<"(">> \o source(node.elts[1]) \o <<",", ")">>
            ELSE <<"(">> \o join(<<",", " ">>, sources(node.elts)) \o <<")">>
      [] node.kind = "Set" -> <<"{">> \o join(<<",", " ">>, sources(node.elts)) \o <<"}">>
      [] node.kind = "Call" ->
            source(node.func[1]) \o <<"(">>
                \o join(<<",", " ">>, sources(node.elts) \o keyword_sources(node.keywords))
                \o <<")">>
      [] OTHER -> node.s
sources(nodes) ==
    IF nodes = <<>> THEN <<>> ELSE <<source(nodes[1])>> \o sources(Tail(nodes))
keyword_sources(kws) ==
    IF kws = <<>> THEN <<>>
    ELSE <<kws[1].arg \o <<"=">> \o source(kws[1].value)>> \o keyword_sources(Tail(kws))

to_source(node) ==
    IF node.kind = "Assign"
    THEN join(<<" ", "=", " ">>, sources(node.targets) \o <<source(node.value)>>) \o s_newline
    ELSE source(node) \o s_newline

-----------------------------------------------------------------------------
(* The catalog of value classes and the descriptor classes *)

VALUE_CLASSES ==
    <<c_Value, c_BooleanValue, c_IntegerValue, c_PositiveIntegerValue, c_FloatValue,
      c_DecimalValue, c_ListValue, c_TupleValue, c_SingleNestedListValue,
      c_SingleNestedTupleValue, c_SetValue, c_DictValue, c_EmailValue, c_URLValue,
      c_IPValue, c_RegexValue, c_PathValue, c_DatabaseURLValue, c_CacheURLValue,
      c_EmailURLValue, c_SearchURLValue, c_BackendsValue, c_SecretValue>>

VALUES_CLASSES_TO_ENV_VAR ==
    << <<c_ListValue, "ListEnvVar">>,
       <<c_TupleValue, "TupleEnvVar">>,
       <<c_SingleNestedListValue, "SingleNestedListEnvVar">>,
       <<c_SingleNestedTupleValue, "SingleNestedTupleEnvVar">>,
       <<c_SetValue, "SetEnvVar">>,
       <<c_RegexValue, "RegexEnvVar">>,
       <<c_PathValue, "PathEnvVar">>,
       <<c_BackendsValue, "ListEnvVar">> >>

In(x, list) == \E i \in DOMAIN list : list[i] = x

(* dict.get(key, default) on a dict held as a sequence of <<key, value>> pairs *)
dict_get(d, key, default) ==
    IF \E i \in DOMAIN d : d[i][1] = key
    THEN d[CHOOSE i \in DOMAIN d : d[i][1] = key][2]
    ELSE default

IsSingleNested(cls) == cls \in {"SingleNestedListEnvVar", "SingleNestedTupleEnvVar"}
IsListEnvVar(cls) == cls \in {"ListEnvVar", "TupleEnvVar", "SetEnvVar"} \/ IsSingleNested(cls)
IsEnvVarWithExtra(cls) == cls \in {"RegexEnvVar", "PathEnvVar"} \/ IsListEnvVar(cls)

_extra_params(cls) ==
    CASE cls = "RegexEnvVar" -> << <<kw_regex, PyNone>> >>
      [] cls = "PathEnvVar" -> << <<kw_checks_exists, PyTrue>> >>
      [] IsSingleNested(cls) ->
            << <<kw_separator, PyStr(s_comma)>>, <<kw_seq_separator, PyStr(s_semicolon)>> >>
      [] IsListEnvVar(cls) /\ ~IsSingleNested(cls) -> << <<kw_separator, PyStr(s_comma)>> >>
      [] OTHER -> <<>>

empty_default(cls) ==
    CASE cls \in {"TupleEnvVar", "SingleNestedTupleEnvVar"} -> s_parens
      [] cls = "SetEnvVar" -> s_braces
      [] OTHER -> s_brackets

(* EnvVar.__init__ and _EnvVarWithExtra.__init__; site identifies the instance by *)
(* the Call node it was created for: [stmt, path]                                 *)
EnvVar(cls, cls_name, site) ==
    [cls |-> cls, _cls_name |-> cls_name, environ_name |-> PyNone,
     environ_prefix |-> PyStr(s_DJANGO), default |-> PyNone,
     _extra |-> _extra_params(cls), site |-> site]

env_var_factory(cls_name, site) ==
    EnvVar(dict_get(VALUES_CLASSES_TO_ENV_VAR, cls_name, "EnvVar"), cls_name, site)

extra_get(env, name) == dict_get(env._extra, name, PyNone)
extra_set(env, name, value) ==
    [env EXCEPT !._extra =
        [i \in DOMAIN @ |-> IF @[i][1] = name THEN <<name, value>> ELSE @[i]]]

EnvVar_name(env) == env.environ_prefix.s \o <<"_">> \o env.environ_name.s

(* EnvVar.type without the case of Value *)
EnvVar_type_suffix(env) ==
    SubSeq(env._cls_name, 1, Len(env._cls_name) - Len(s_Value))

EnvVar_type(env) ==
    IF env._cls_name = s_Value THEN s_String
    ELSE SubSeq(env._cls_name, 1, Len(env._cls_name) - Len(s_Value))

RECURSIVE extra_line(_)
extra_line(items) ==
    IF items = <<>> THEN <<>>
    ELSE <<" ", "(">> \o items[1][1] \o <<"=">> \o str(items[1][2]) \o <<")">>
            \o extra_line(Tail(items))

(* EnvVar.extra of the base class, for every class *)
EnvVar_extra_base(env) == <<>>

EnvVar_extra(env) == extra_line(env._extra)

(* EnvVar._node_to_source *)
EnvVar_node_to_source(node) ==
    IF node.kind = "Str" THEN node.s
    ELSE IF node.kind = "Num" THEN int_str(node.n)
    ELSE strip(to_source(node))

(* if not dump: return self.empty_default; else: return <separator>.join(dump) *)
join_dump(env, separator, dump) ==
    IF dump = <<>> THEN empty_default(env.cls)
    ELSE join(str(extra_get(env, separator)), dump)

(* ListEnvVar._node_to_source *)
ListEnvVar_node_to_source(env, node) ==
    IF IsSequenceLiteral(node)
    THEN join_dump(env, kw_separator,
                   [i \in DOMAIN node.elts |-> EnvVar_node_to_source(node.elts[i])])
    ELSE EnvVar_node_to_source(node)

(* SingleNestedListEnvVar._node_to_source *)
SingleNestedListEnvVar_node_to_source(env, node) ==
    IF node.kind \in {"List", "Tuple"}
    THEN join_dump(env, kw_seq_separator,
                   [i \in DOMAIN node.elts |-> ListEnvVar_node_to_source(env, node.elts[i])])
    ELSE ListEnvVar_node_to_source(env, node)

_node_to_source(env, node) ==
    IF IsSingleNested(env.cls) THEN SingleNestedListEnvVar_node_to_source(env, node)
    ELSE IF IsListEnvVar(env.cls) THEN ListEnvVar_node_to_source(env, node)
    ELSE EnvVar_node_to_source(node)

(* The Assign nodes of the tree in the order ast.walk yields them: breadth-first, *)
(* the statements of the module body before those of class bodies                 *)
ast_walk_Assign(tree) ==
    LET top(stmt) == stmt.kind = "Assign" /\ ~stmt.nested
        inner(stmt) == stmt.kind = "Assign" /\ stmt.nested
    IN  SelectSeq(tree, top) \o SelectSeq(tree, inner)

assigns_to(tree, id) ==
    LET hit(node) ==
            \E i \in DOMAIN node.targets :
                node.targets[i].kind = "Name" /\ node.targets[i].s = id
    IN  SelectSeq(ast_walk_Assign(tree), hit)

DefaultDepth == 3

(* _resolve_variable that renders what the name is assigned, following nothing *)
_resolve_variable_once(env, variable_node, tree, depth) ==
    LET found == assigns_to(tree, variable_node.s)
    IN  IF found = <<>> THEN PyNone
        ELSE PyStr(_node_to_source(env, found[1].value))

RECURSIVE _resolve_variable(_, _, _, _)
_resolve_variable(env, variable_node, tree, depth) ==
    LET found == assigns_to(tree, variable_node.s)
    IN  IF found = <<>> THEN PyNone
        ELSE LET node == found[1]
             IN  IF node.value.kind = "Name" /\ depth # 0
                 THEN _resolve_variable(env, node.value, tree, depth - 1)
                 ELSE PyStr(_node_to_source(env, node.value))

(* _resolve_variable_calls that goes on while the value is a name, whatever *)
(* the depth, for as many hops as the tree has statements                  *)
RECURSIVE follow_calls(_, _, _)
follow_calls(variable_node, tree, fuel) ==
    LET found == assigns_to(tree, variable_node.s)
    IN  IF found = <<>> THEN 1
        ELSE IF found[1].value.kind = "Name" /\ fuel # 0
             THEN 1 + follow_calls(found[1].value, tree, fuel - 1)
             ELSE 1

_resolve_variable_calls_any_depth(variable_node, tree, depth) ==
    follow_calls(variable_node, tree, Len(tree))

(* The number of calls of _resolve_variable that one call of it makes, *)
(* itself included                                                     *)
RECURSIVE _resolve_variable_calls(_, _, _)
_resolve_variable_calls(variable_node, tree, depth) ==
    LET found == assigns_to(tree, variable_node.s)
    IN  IF found = <<>> THEN 1
        ELSE IF found[1].value.kind = "Name" /\ depth # 0
             THEN 1 + _resolve_variable_calls(found[1].value, tree, depth - 1)
             ELSE 1

(* _set_default that renders a name nothing assigns as its own text *)
_set_default_unfound(m, env, default_node, tree) ==
    IF default_node.kind = "Name"
    THEN LET found == assigns_to(tree, default_node.s)
         IN  IF found # <<>>
             THEN [env EXCEPT !.default =
                        PyStr(s_Variable \o strip(to_source(found[Len(found)])))]
             ELSE [env EXCEPT !.default = PyStr(_node_to_source(env, default_node))]
    ELSE [env EXCEPT !.default = PyStr(_node_to_source(env, default_node))]

(* _set_default that renders what the name is assigned, not the assignment *)
_set_default_value(m, env, default_node, tree) ==
    IF default_node.kind = "Name"
    THEN LET found == assigns_to(tree, default_node.s)
         IN  IF found # <<>>
             THEN [env EXCEPT !.default =
                        PyStr(_node_to_source(env, found[Len(found)].value))]
             ELSE IF m = "utils" THEN [env EXCEPT !.default = PyNone] ELSE env
    ELSE [env EXCEPT !.default = PyStr(_node_to_source(env, default_node))]

_set_default(m, env, default_node, tree) ==
    IF default_node.kind = "Name"
    THEN LET found == assigns_to(tree, default_node.s)
         IN  IF found # <<>>
             THEN [env EXCEPT !.default =
                        PyStr(s_Variable \o strip(to_source(found[Len(found)])))]
             ELSE IF m = "utils" THEN [env EXCEPT !.default = PyNone] ELSE env
    ELSE [env EXCEPT !.default = PyStr(_node_to_source(env, default_node))]

(* The outcome of a method that may raise *)
Returned(env) == [exc |-> FALSE, env |-> env]
Raised(env) == [exc |-> TRUE, env |-> env]

(* _set_environ_name without its final check *)
environ_name_unchecked(env, name) == Returned([env EXCEPT !.environ_name = name])

(* if name: self.environ_name = name; else: raise *)
environ_name_or_raise(env, name) ==
    IF bool(name) THEN Returned([env EXCEPT !.environ_name = name]) ELSE Raised(env)

(* _set_environ_name that falls back to the identifier of a reference *)
_set_environ_name_fallback(env, node, tree) ==
    environ_name_or_raise(env,
        CASE node.kind = "Str" -> PyStr(node.s)
          [] node.kind = "Name" /\ node.ctx = "Store" -> PyStr(node.s)
          [] node.kind = "Name" /\ node.ctx = "Load" ->
                IF bool(_resolve_variable(env, node, tree, DefaultDepth))
                THEN _resolve_variable(env, node, tree, DefaultDepth)
                ELSE PyStr(node.s)
          [] OTHER -> PyNone)

_set_environ_name(env, node, tree) ==
    environ_name_or_raise(env,
        CASE node.kind = "Str" -> PyStr(node.s)
          [] node.kind = "Name" /\ node.ctx = "Store" -> PyStr(node.s)
          [] node.kind = "Name" /\ node.ctx = "Load" ->
                _resolve_variable(env, node, tree, DefaultDepth)
          [] OTHER -> PyNone)

(* if prefix: self.environ_prefix = prefix; else: raise *)
environ_prefix_or_raise(env, prefix) ==
    IF bool(prefix) THEN Returned([env EXCEPT !.environ_prefix = prefix]) ELSE Raised(env)

(* A node that is neither a string nor a loaded name raises in utils; in the  *)
(* command the check reads the prefix the instance already has, and passes    *)
_set_environ_prefix(m, env, node, tree) ==
    IF node.kind = "Str" THEN environ_prefix_or_raise(env, PyStr(node.s))
    ELSE IF node.kind = "Name" /\ node.ctx = "Load"
    THEN environ_prefix_or_raise(env, _resolve_variable(env, node, tree, DefaultDepth))
    ELSE IF m = "utils" THEN Raised(env)
    ELSE environ_prefix_or_raise(env, env.environ_prefix)

IgnoredKeywords(m) ==
    IF m = "utils" THEN {kw_environ_required, kw_alias, kw_converter}
    ELSE {kw_environ_required}

EnvVar_set_keyword(m, env, kw, node, tree) ==
    CASE kw = kw_default -> Returned(_set_default(m, env, node, tree))
      [] kw = kw_environ_name -> _set_environ_name(env, node, tree)
      [] kw = kw_environ_prefix -> _set_environ_prefix(m, env, node, tree)
      [] kw \in IgnoredKeywords(m) -> Returned(env)
      [] OTHER -> Raised(env)

EnvVarWithExtra_set_keyword(m, env, kw, node, tree) ==
    IF \E i \in DOMAIN env._extra : env._extra[i][1] = kw
    THEN Returned(extra_set(env, kw, PyStr(_node_to_source(env, node))))
    ELSE EnvVar_set_keyword(m, env, kw, node, tree)

set_keyword(m, env, kw, node, tree) ==
    IF IsEnvVarWithExtra(env.cls) THEN EnvVarWithExtra_set_keyword(m, env, kw, node, tree)
    ELSE EnvVar_set_keyword(m, env, kw, node, tree)

(* set_positional that takes every position as the default *)
EnvVar_set_positional_any(m, env, p, node, tree) ==
    Returned(_set_default(m, env, node, tree))

EnvVar_set_positional(m, env, p, node, tree) ==
    IF p = 0 THEN Returned(_set_default(m, env, node, tree)) ELSE Raised(env)

RegexEnvVar_set_positional(m, env, p, node, tree) ==
    IF p = 1 THEN Returned(extra_set(env, kw_regex, PyStr(_node_to_source(env, node))))
    ELSE EnvVar_set_positional(m, env, p, node, tree)

set_positional(m, env, p, node, tree) ==
    IF env.cls = "RegexEnvVar" THEN RegexEnvVar_set_positional(m, env, p, node, tree)
    ELSE EnvVar_set_positional(m, env, p, node, tree)

-----------------------------------------------------------------------------
(* CustomisableVariablesFinder *)

(* The finder's lists while a statement is visited; exc: an exception was raised *)
Finder(variables, noname, exc) ==
    [variables |-> variables, noname |-> noname, exc |-> exc]

_values_cls_name(func_node) ==
    IF func_node.kind \notin {"Name", "Attribute"}
    THEN [exc |-> TRUE, name |-> PyNone]
    ELSE [exc |-> FALSE,
          name |-> IF In(func_node.s, VALUE_CLASSES) THEN PyStr(func_node.s) ELSE PyNone]

IsFalse(node) == node.kind = "NameConstant" /\ node.s = s_False

(* The nodes that have an attribute named value, which kwarg.value.value reads *)
HasValueAttribute(node) == node.kind \in {"Str", "Num", "NameConstant", "Attribute"}

(* for kwarg in node.keywords: ...; how is "next" (the loop ended), "return" *)
(* (environ=False) or "raise"; r is what set_keyword gave for the first one  *)
RECURSIVE consume_keywords(_, _, _, _)
RECURSIVE next_keyword(_, _, _, _)
consume_keywords(m, env, keywords, tree) ==
    IF keywords = <<>> THEN [how |-> "next", env |-> env]
    ELSE IF keywords[1].arg = kw_environ /\ ~HasValueAttribute(keywords[1].value)
    THEN [how |-> "raise", env |-> env]
    ELSE IF keywords[1].arg = kw_environ /\ IsFalse(keywords[1].value)
    THEN [how |-> "return", env |-> env]
    ELSE next_keyword(m, set_keyword(m, env, keywords[1].arg, keywords[1].value, tree),
                      Tail(keywords), tree)
next_keyword(m, r, keywords, tree) ==
    IF r.exc THEN [how |-> "raise", env |-> r.env]
    ELSE consume_keywords(m, r.env, keywords, tree)

(* for pos, arg in enumerate(node.args): ...; r is what set_positional gave *)
RECURSIVE consume_args(_, _, _, _, _)
RECURSIVE next_arg(_, _, _, _, _)
consume_args(m, env, args, p, tree) ==
    IF p >= Len(args) THEN Returned(env)
    ELSE next_arg(m, set_positional(m, env, p, args[p + 1], tree), args, p + 1, tree)
next_arg(m, r, args, p, tree) ==
    IF r.exc THEN r ELSE consume_args(m, r.env, args, p, tree)

(* The end of visit_Call: p is the descriptor after the positional arguments *)
append_or_noname(st, p) ==
    IF p.exc THEN [st EXCEPT !.exc = TRUE]
    ELSE IF bool(p.env.environ_name) THEN [st EXCEPT !.variables = Append(@, p.env)]
    ELSE [st EXCEPT !.noname = Some(p.env)]

(* visit_Call once the keywords are consumed, with outcome k *)
after_keywords(m, st, node, tree, k) ==
    IF k.how = "return" THEN st
    ELSE IF k.how = "raise" THEN [st EXCEPT !.exc = TRUE]
    ELSE append_or_noname(st, consume_args(m, k.env, node.elts, 0, tree))

(* visit_Call once cls_name is known *)
recognized_Call(m, st, node, site, tree, cls_name) ==
    IF cls_name.exc THEN [st EXCEPT !.exc = TRUE]
    ELSE IF ~bool(cls_name.name) THEN st
    ELSE after_keywords(m, st, node, tree,
            consume_keywords(m, env_var_factory(cls_name.name.s, site), node.keywords, tree))

visit_Call(m, st, node, site, tree) ==
    recognized_Call(m, st, node, site, tree, _values_cls_name(node.func[1]))

(* NodeVisitor.visit and generic_visit on an expression: a Call goes to visit_Call, *)
(* which visits no child; any other node has its children visited in order          *)
RECURSIVE visit(_, _, _, _, _)
RECURSIVE generic_visit(_, _, _, _, _, _)
visit(m, st, node, site, tree) ==
    IF st.exc THEN st
    ELSE IF node.kind = "Call" THEN visit_Call(m, st, node, site, tree)
    ELSE generic_visit(m, st, node.elts, 1, site, tree)
generic_visit(m, st, children, i, site, tree) ==
    IF i > Len(children) THEN st
    ELSE generic_visit(m,
            visit(m, st, children[i], [site EXCEPT !.path = Append(@, i)], tree),
            children, i + 1, site, tree)

(* The end of visit_Assign: r is what variable.set_keyword('environ_name', ...) gave *)
append_named(st, r) ==
    IF r.exc THEN [st EXCEPT !.noname = None, !.exc = TRUE]
    ELSE [st EXCEPT !.noname = None, !.variables = Append(@, r.env)]

(* visit_Assign after self.generic_visit(node), which left the finder as st *)
name_noname(m, st, node, tree) ==
    IF st.exc \/ st.noname = None THEN st
    ELSE append_named(st,
            set_keyword(m, st.noname[1], kw_environ_name, node.targets[1], tree))

(* generic_visit reaches the targets, which hold no call here, then the value *)
visit_Assign(m, st, node, idx, tree) ==
    name_noname(m, visit(m, st, node.value, [stmt |-> idx, path |-> <<>>], tree),
                node, tree)

visit_Expr(m, st, node, idx, tree) ==
    visit(m, st, node.value, [stmt |-> idx, path |-> <<>>], tree)

visit_stmt(m, st, node, idx, tree) ==
    IF node.kind = "Assign" THEN visit_Assign(m, st, node, idx, tree)
    ELSE visit_Expr(m, st, node, idx, tree)

(* self.visit(self._tree) on the statements i..k of body, from the finder st *)
RECURSIVE visit_body(_, _, _, _, _, _)
visit_body(m, st, body, i, k, tree) ==
    IF i > k \/ st.exc THEN st
    ELSE visit_body(m, visit_stmt(m, st, body[i], i, tree), body, i + 1, k, tree)

-----------------------------------------------------------------------------
(* Command.dump *)

(* dump_single_variable without the export keyword *)
dump_single_variable_bare(variable) == EnvVar_name(variable) \o <<"=">>

dump_single_variable(variable) == s_export \o EnvVar_name(variable) \o <<"=">>

(* dump_single_variable_comment that writes the default whatever it is *)
dump_single_variable_comment_always(variable) ==
    s_hash \o EnvVar_name(variable) \o s_colon \o EnvVar_type(variable)
        \o <<"=">> \o str(variable.default) \o EnvVar_extra(variable)

dump_single_variable_comment(variable) ==
    LET _default == variable.default
        default == IF bool(_default) THEN <<"=">> \o str(_default) ELSE <<>>
    IN  s_hash \o EnvVar_name(variable) \o s_colon \o EnvVar_type(variable)
            \o default \o EnvVar_extra(variable)

RECURSIVE dump_result(_)
dump_result(variables) ==
    IF variables = <<>> THEN <<>>
    ELSE <<dump_single_variable_comment(variables[1]), dump_single_variable(variables[1])>>
            \o dump_result(Tail(variables))

dump(variables, sort_) == join(s_newline, dump_result(variables))

-----------------------------------------------------------------------------
(* The state machine: a caller constructs a finder on a parsed module, has it *)
(* traverse the module statement by statement, and (in the command) dumps it  *)

traverse ==
    /\ pc = "new"
    /\ _variables' = Some(<<>>)
    /\ pos' = 1
    /\ pc' = "visit"
    /\ UNCHANGED <<module, _tree, _noname, sort, output>>

(* The visit of the statement at pos left the finder as st *)
Visited(st) ==
    \E finder \in {st} :
        /\ _variables' = Some(finder.variables)
        /\ _noname' = finder.noname
        /\ pc' = IF finder.exc THEN "raised" ELSE "visit"
        /\ pos' = IF finder.exc THEN pos ELSE pos + 1
        /\ UNCHANGED <<module, _tree, sort, output>>

VisitAssign ==
    /\ pc = "visit"
    /\ pos <= Len(_tree)
    /\ _tree[pos].kind = "Assign"
    /\ Visited(visit_Assign(module, Finder(_variables[1], _noname, FALSE),
                            _tree[pos], pos, _tree))

VisitExpr ==
    /\ pc = "visit"
    /\ pos <= Len(_tree)
    /\ _tree[pos].kind = "Expr"
    /\ Visited(visit_Expr(module, Finder(_variables[1], _noname, FALSE),
                          _tree[pos], pos, _tree))

Return ==
    /\ pc = "visit"
    /\ pos > Len(_tree)
    /\ pc' = "done"
    /\ UNCHANGED <<module, _tree, _variables, _noname, pos, sort, output>>

Dump ==
    /\ module = "command"
    /\ pc = "done"
    /\ output' = Some(dump(_variables[1], sort))
    /\ pc' = "dumped"
    /\ UNCHANGED <<module, _tree, _variables, _noname, pos, sort>>

(* The caller reads the property variables of a finder whose traversal has *)
(* returned or has raised: _variables is not None, so the getter does not  *)
(* traverse again and returns the list as it stands                        *)
variables ==
    /\ pc \in {"done", "raised"}
    /\ _variables # None
    /\ pc' = IF pc = "raised" THEN "raised_read" ELSE "read"
    /\ UNCHANGED <<module, _tree, _variables, _noname, pos, sort, output>>

Next == traverse \/ VisitAssign \/ VisitExpr \/ Return \/ Dump \/ variables

(* The parsed modules a run starts from: every sequence of at most MaxStmts *)
(* statements of a family                                                   *)
Trees(family) == UNION {[1..n -> family] : n \in 0..MaxStmts}

InitOn(family) ==
    /\ module \in {"utils", "command"}
    /\ _tree \in Trees(family)
    /\ _variables = None
    /\ _noname = None
    /\ pc = "new"
    /\ pos = 0
    /\ sort \in (IF module = "command" THEN BOOLEAN ELSE {FALSE})
    /\ output = None

-----------------------------------------------------------------------------
(* The statements the parsed modules are built from *)

A == <<"A">>
B == <<"B">>
E == <<"E">>
P == <<"P">>
X == <<"X">>
Y == <<"Y">>

Load(id) == Name(id, "Load")
Store(id) == Name(id, "Store")
values(cls) == Attribute(Load(s_values), cls)
print(arg) == Call(Load(<<"p", "r", "i", "n", "t">>), <<arg>>, <<>>)

(* Declarations and their names: explicit names and prefixes, targets that are  *)
(* no simple name, names given by reference, calls outside any assignment,      *)
(* calls whose callee is not of the catalog, statements that declare nothing    *)
NameStatements ==
    { Assign(<<Store(A)>>, Call(values(c_Value), <<>>, <<>>), TRUE),
      Assign(<<Store(B)>>,
             Call(values(c_Value), <<>>, <<keyword(kw_environ_name, Str(E))>>), TRUE),
      Assign(<<Store(A)>>,
             Call(values(c_Value), <<>>, <<keyword(kw_environ_prefix, Str(P))>>), TRUE),
      Assign(<<Store(A)>>,
             Call(values(c_Value), <<>>, <<keyword(kw_environ_name, Str(<<>>))>>), TRUE),
      Assign(<<Attribute(Load(A), B)>>, Call(values(c_PathValue), <<>>, <<>>), FALSE),
      Assign(<<Attribute(Load(A), B)>>,
             Call(values(c_Value), <<>>, <<keyword(kw_environ_name, Str(E))>>), FALSE),
      Expr(Call(values(c_Value), <<>>, <<>>), FALSE),
      Expr(print(Str(A)), FALSE),
      Assign(<<Store(A)>>,
             List(<<Call(Load(c_SecretValue), <<>>, <<>>),
                    Call(values(c_Value), <<>>, <<keyword(kw_environ_name, Str(E))>>)>>),
             TRUE),
      Assign(<<Store(X)>>, Str(E), FALSE),
      Assign(<<Store(X)>>, Str(P), TRUE),
      Assign(<<Store(B)>>,
             Call(values(c_Value), <<>>, <<keyword(kw_environ_name, Load(X))>>), TRUE),
      Assign(<<Store(B)>>,
             Call(values(c_Value), <<>>, <<keyword(kw_environ_prefix, Load(X))>>), TRUE),
      Assign(<<Store(A)>>, Call(Call(Load(X), <<>>, <<>>), <<>>, <<>>), FALSE),
      Assign(<<Store(B)>>, print(Call(values(c_Value), <<Str(X)>>, <<>>)), TRUE),
      Assign(<<Store(A), Store(B)>>, Call(values(c_ListValue), <<>>, <<>>), TRUE) }

Init == InitOn(NameStatements)

Spec == Init /\ [][Next]_vars

(* Every kind of the catalog, called with no argument *)
KindStatements ==
    { Assign(<<Store(A)>>, Call(values(VALUE_CLASSES[k]), <<>>, <<>>), TRUE) :
        k \in DOMAIN VALUE_CLASSES }
    \cup
    { Assign(<<Store(B)>>, Call(Load(c_IntegerValue), <<>>, <<>>), FALSE),
      Assign(<<Store(B), Store(A)>>, Call(values(c_Value), <<>>, <<>>), FALSE),
      Expr(Call(values(c_Value), <<>>, <<>>), FALSE),
      Expr(print(Str(A)), FALSE) }

SpecKinds == InitOn(KindStatements) /\ [][Next]_vars

(* Calls that carry environ=False, before and after their other keywords *)
EnvironStatements ==
    { Assign(<<Store(A)>>,
             Call(values(c_Value), <<Str(X)>>,
                  <<keyword(kw_environ, NameConstant(s_False))>>), TRUE),
      Assign(<<Store(A)>>,
             Call(values(c_Value), <<>>,
                  <<keyword(kw_environ, NameConstant(s_False)),
                    keyword(kw_late_binding, NameConstant(s_True))>>), TRUE),
      Assign(<<Store(A)>>,
             Call(values(c_Value), <<>>,
                  <<keyword(kw_late_binding, NameConstant(s_True)),
                    keyword(kw_environ, NameConstant(s_False))>>), TRUE),
      Assign(<<Store(A)>>,
             Call(values(c_Value), <<>>,
                  <<keyword(kw_environ, NameConstant(s_False)),
                    keyword(kw_environ_name, Load(X))>>), TRUE),
      Assign(<<Store(A)>>,
             Call(values(c_Value), <<>>,
                  <<keyword(kw_environ_name, Load(X)),
                    keyword(kw_environ, NameConstant(s_False))>>), TRUE),
      Assign(<<Store(B)>>,
             Call(values(c_ListValue), <<>>,
                  <<keyword(kw_environ_name, Str(E)),
                    keyword(kw_environ, NameConstant(s_False))>>), TRUE),
      Assign(<<Store(A)>>,
             List(<<Call(values(c_Value), <<>>,
                         <<keyword(kw_environ, NameConstant(s_False))>>),
                    Call(values(c_Value), <<>>, <<>>)>>), TRUE),
      Expr(Call(values(c_Value), <<>>, <<keyword(kw_environ, NameConstant(s_False))>>),
           FALSE),
      Expr(Call(values(c_Value), <<>>, <<>>), FALSE),
      Assign(<<Store(B)>>, Call(values(c_Value), <<>>, <<>>), TRUE),
      Assign(<<Store(X)>>, Str(E), FALSE) }

SpecEnviron == InitOn(EnvironStatements) /\ [][Next]_vars

(* Declarations as Command.dump meets them: each call inside a plain assignment *)
DumpStatements ==
    { Assign(<<Store(A)>>, Call(values(c_Value), <<>>, <<>>), TRUE),
      Assign(<<Store(B)>>, Call(values(c_Value), <<Str(X)>>, <<>>), TRUE),
      Assign(<<Store(B)>>, Call(values(c_Value), <<Str(<<>>)>>, <<>>), TRUE),
      Assign(<<Store(A)>>, Call(values(c_ListValue), <<Load(X)>>, <<>>), TRUE),
      Assign(<<Store(B)>>, Call(values(c_PathValue), <<>>, <<>>), TRUE),
      Assign(<<Store(A)>>,
             Call(values(c_RegexValue), <<>>,
                  <<keyword(kw_environ_prefix, Str(P)), keyword(kw_default, Load(Y))>>),
             TRUE),
      Assign(<<Store(B)>>,
             List(<<Call(values(c_Value), <<>>, <<>>),
                    Call(values(c_Value), <<>>, <<keyword(kw_environ_name, Str(E))>>)>>),
             TRUE),
      Assign(<<Store(A)>>,
             List(<<Call(values(c_Value), <<>>, <<>>),
                    Call(values(c_IntegerValue), <<>>, <<>>)>>), TRUE),
      Assign(<<Store(X)>>, Num(1), FALSE),
      Expr(print(Str(A)), FALSE) }

SpecDump == InitOn(DumpStatements) /\ [][Next]_vars

a == <<"a">>
b == <<"b">>

(* Defaults: bare names with and without an assignment, sequence literals *)
DefaultStatements ==
    { Assign(<<Store(X)>>, Call(values(c_BooleanValue), <<NameConstant(s_True)>>, <<>>),
             TRUE),
      Assign(<<Store(X)>>, Num(1), FALSE),
      Assign(<<Store(Y), Store(X)>>, Str(E), FALSE),
      Assign(<<Store(A)>>, Call(values(c_BooleanValue), <<Load(X)>>, <<>>), TRUE),
      Assign(<<Store(B)>>,
             Call(values(c_Value), <<>>, <<keyword(kw_default, Load(X))>>), TRUE),
      Assign(<<Store(A)>>,
             Call(values(c_ListValue), <<Load(Y)>>, <<keyword(kw_separator, Str(<<":">>))>>),
             TRUE),
      Assign(<<Store(A)>>, Call(values(c_ListValue), <<List(<<Str(a), Str(b)>>)>>, <<>>),
             TRUE),
      Assign(<<Store(A)>>,
             Call(values(c_TupleValue), <<List(<<Str(a), Num(12)>>)>>,
                  <<keyword(kw_separator, Str(<<"/">>))>>), TRUE),
      Assign(<<Store(A)>>,
             Call(values(c_ListValue), <<>>,
                  <<keyword(kw_default, List(<<Str(a), Str(b)>>)),
                    keyword(kw_separator, Str(<<":">>))>>), TRUE),
      Assign(<<Store(A)>>,
             Call(values(c_SetValue), <<>>,
                  <<keyword(kw_separator, Str(<<":">>)),
                    keyword(kw_default, Tuple(<<Str(a), Str(b)>>))>>), TRUE),
      Assign(<<Store(B)>>, Call(values(c_TupleValue), <<List(<<>>)>>, <<>>), TRUE),
      Assign(<<Store(B)>>, Call(values(c_SetValue), <<Tuple(<<>>)>>, <<>>), TRUE),
      Assign(<<Store(B)>>, Call(values(c_BackendsValue), <<Tuple(<<>>)>>, <<>>), TRUE),
      Assign(<<Store(B)>>, Call(values(c_SetValue), <<Set(<<Str(a), Load(X)>>)>>, <<>>),
             TRUE),
      Expr(print(Str(A)), FALSE) }

SpecDefault == InitOn(DefaultStatements) /\ [][Next]_vars

(* Kinds with extra parameters: nested sequences, patterns, paths *)
ExtraStatements ==
    { Assign(<<Store(A)>>, Call(values(c_SingleNestedTupleValue), <<>>, <<>>), TRUE),
      Assign(<<Store(A)>>,
             Call(values(c_SingleNestedListValue),
                  <<List(<<List(<<Str(a), Str(b)>>), List(<<Str(E)>>)>>)>>, <<>>), TRUE),
      Assign(<<Store(A)>>,
             Call(values(c_SingleNestedTupleValue),
                  <<Tuple(<<Tuple(<<Str(a), Num(1)>>), List(<<Str(E)>>)>>)>>,
                  <<keyword(kw_separator, Str(<<"|">>)),
                    keyword(kw_seq_separator, Str(<<"/">>))>>), TRUE),
      Assign(<<Store(A)>>,
             Call(values(c_SingleNestedListValue), <<>>,
                  <<keyword(kw_default, List(<<List(<<Str(a), Str(b)>>), List(<<Str(E)>>)>>)),
                    keyword(kw_separator, Str(<<"|">>))>>), TRUE),
      Assign(<<Store(B)>>, Call(values(c_SingleNestedTupleValue), <<List(<<>>)>>, <<>>),
             TRUE),
      Assign(<<Store(B)>>, Call(values(c_SingleNestedListValue), <<Tuple(<<>>)>>, <<>>),
             TRUE),
      Assign(<<Store(B)>>, Call(values(c_RegexValue), <<Str(X), Str(P)>>, <<>>), TRUE),
      Assign(<<Store(B)>>,
             Call(values(c_RegexValue), <<Str(X)>>, <<keyword(kw_regex, Str(P))>>), TRUE),
      Assign(<<Store(B)>>,
             Call(values(c_PathValue), <<>>,
                  <<keyword(kw_checks_exists, NameConstant(s_False))>>), TRUE),
      Assign(<<Store(B)>>, Call(values(c_PathValue), <<Str(X)>>, <<>>), TRUE),
      Assign(<<Store(A)>>,
             Call(values(c_ListValue), <<>>, <<keyword(kw_separator, Str(<<":">>))>>), TRUE),
      Assign(<<Store(A)>>, Call(values(c_SetValue), <<List(<<Str(a)>>)>>, <<>>), TRUE),
      Expr(print(Str(A)), FALSE) }

SpecExtra == InitOn(ExtraStatements) /\ [][Next]_vars

(* Arguments a call may not carry, references nothing assigns, keywords that *)
(* are accepted and ignored                                                  *)
ArgumentStatements ==
    { Assign(<<Store(A)>>, Call(values(c_Value), <<Str(X)>>, <<>>), TRUE),
      Assign(<<Store(A)>>,
             Call(values(c_Value), <<>>, <<keyword(kw_late_binding, NameConstant(s_True))>>),
             TRUE),
      Assign(<<Store(A)>>,
             Call(values(c_Value), <<>>, <<keyword(kw_separator, Str(<<":">>))>>), TRUE),
      Assign(<<Store(A)>>,
             Call(values(c_ListValue), <<>>,
                  <<keyword(kw_separator, Str(<<":">>)), keyword(kw_regex, Str(P))>>), TRUE),
      Assign(<<Store(B)>>, Call(values(c_Value), <<Str(X), Str(Y)>>, <<>>), TRUE),
      Assign(<<Store(B)>>, Call(values(c_RegexValue), <<Str(X), Str(P), Str(Y)>>, <<>>),
             TRUE),
      Assign(<<Store(B)>>, Call(values(c_RegexValue), <<Str(X), Str(P)>>, <<>>), TRUE),
      Assign(<<Store(B)>>,
             Call(values(c_Value), <<>>,
                  <<keyword(kw_environ, NameConstant(s_False)),
                    keyword(kw_late_binding, NameConstant(s_True))>>), TRUE),
      Assign(<<Store(B)>>,
             Call(values(c_Value), <<Str(X), Str(Y)>>,
                  <<keyword(kw_environ, NameConstant(s_False))>>), TRUE),
      Assign(<<Store(A)>>,
             Call(values(c_Value), <<>>, <<keyword(kw_environ_name, Load(Y))>>), TRUE),
      Assign(<<Store(A)>>,
             Call(values(c_Value), <<>>, <<keyword(kw_environ_prefix, Load(Y))>>), TRUE),
      Assign(<<Store(A)>>,
             Call(values(c_Value), <<>>,
                  <<keyword(kw_environ, NameConstant(s_False)),
                    keyword(kw_environ_name, Load(Y))>>), TRUE),
      Assign(<<Store(Y)>>, Str(E), FALSE),
      Assign(<<Store(Y)>>, Load(X), FALSE),
      Assign(<<Store(A)>>, Call(values(c_Value), <<Load(X)>>, <<>>), TRUE),
      Assign(<<Store(B)>>,
             Call(values(c_ListValue), <<>>, <<keyword(kw_default, Load(X))>>), TRUE),
      Assign(<<Store(A)>>, Call(values(c_Value), <<>>, <<keyword(kw_alias, Str(X))>>),
             TRUE),
      Assign(<<Store(B)>>,
             Call(values(c_PathValue), <<>>,
                  <<keyword(kw_converter, Load(X)),
                    keyword(kw_environ_required, NameConstant(s_True))>>), TRUE),
      Assign(<<Store(A)>>,
             Call(values(c_BooleanValue), <<>>,
                  <<keyword(kw_environ_required, NameConstant(s_True)),
                    keyword(kw_default, NameConstant(s_True))>>), TRUE),
      Expr(print(Str(A)), FALSE) }

SpecArguments == InitOn(ArgumentStatements) /\ [][Next]_vars

(* Chains, cycles and reassignments of names that a declaration refers to *)
MaxChain == 4

N(i) == <<"N">> \o int_str(i)

(* N0 = N1, ..., N(k-1) = Nk, Nk = end *)
Chain(k, end) ==
    [i \in 1..(k + 1) |->
        IF i <= k THEN Assign(<<Store(N(i - 1))>>, Load(N(i)), FALSE)
        ELSE Assign(<<Store(N(k))>>, end, FALSE)]

(* A cycle, a name assigned itself, names assigned twice, the longest chain *)
Cycles ==
    { <<Assign(<<Store(N(0))>>, Load(N(1)), FALSE),
        Assign(<<Store(N(1))>>, Load(N(0)), FALSE)>>,
      <<Assign(<<Store(N(0))>>, Load(N(0)), FALSE)>>,
      <<Assign(<<Store(N(0))>>, Str(E), FALSE),
        Assign(<<Store(N(0))>>, Str(P), FALSE)>>,
      <<Assign(<<Store(N(0))>>, Load(N(1)), FALSE),
        Assign(<<Store(N(1))>>, Str(E), FALSE),
        Assign(<<Store(N(0))>>, Str(P), FALSE)>>,
      Chain(MaxChain, Str(E)) }

(* The trees that give N0 to a declaration by one of the keywords kws after *)
(* the assignments of a body, followed or not by a statement that is no     *)
(* assignment                                                               *)
Referring(bodies, kws) ==
    LET Refer(kw) ==
            Assign(<<Store(A)>>, Call(values(c_Value), <<>>, <<keyword(kw, Load(N(0)))>>),
                   TRUE)
    IN  {body \o <<Refer(kw)>> \o tail :
            body \in bodies, kw \in kws,
            tail \in {<<>>, <<Expr(print(Str(A)), FALSE)>>}}

ResolveTrees ==
    LET Reversed(s) == [i \in DOMAIN s |-> s[Len(s) + 1 - i]]
        chains == {Chain(k, end) : k \in 0..MaxChain, end \in {Str(E), Num(1)}}
    IN  Referring(chains \cup {Reversed(ch) : ch \in chains} \cup Cycles,
                  {kw_environ_name, kw_environ_prefix, kw_default})

InitResolve ==
    /\ module \in {"utils", "command"}
    /\ _tree \in ResolveTrees
    /\ _variables = None
    /\ _noname = None
    /\ pc = "new"
    /\ pos = 0
    /\ sort \in (IF module = "command" THEN BOOLEAN ELSE {FALSE})
    /\ output = None

SpecResolve == InitResolve /\ [][Next]_vars

(* The analysis is one sequential run: a step that can be taken is taken *)
InitCycles ==
    InitResolve /\ _tree \in Referring(Cycles, {kw_environ_name, kw_environ_prefix})

FairSpecCycles ==
    InitCycles /\ [][Next]_vars /\ WF_vars(traverse \/ VisitAssign \/ VisitExpr \/ Return)

(* A finder that is used again: declarations, a call outside any assignment *)
(* and a declaration that fails after a call without name                   *)
AgainStatements ==
    { Expr(Call(values(c_Value), <<>>, <<>>), FALSE),
      Assign(<<Store(A)>>, Call(values(c_Value), <<>>, <<>>), TRUE),
      Assign(<<Store(B)>>,
             Call(values(c_Value), <<>>, <<keyword(kw_environ_name, Str(E))>>), TRUE),
      Assign(<<Store(A)>>,
             List(<<Call(values(c_Value), <<>>, <<>>),
                    Call(values(c_Value), <<>>,
                         <<keyword(kw_late_binding, NameConstant(s_True))>>)>>), TRUE),
      Expr(print(Str(A)), FALSE) }

(* traverse called on a finder whose traversal has returned or has raised:   *)
(* generate_dot_env_utils.py empties the list and takes the tree it is given *)
(* (the same or another), management/commands/generate_dot_env.py has no     *)
(* tree parameter and keeps the list; neither touches the pending slot       *)
traverse_again ==
    /\ pc \in {"done", "raised"}
    /\ IF module = "utils"
       THEN /\ _tree' \in Trees(AgainStatements)
            /\ _variables' = Some(<<>>)
       ELSE /\ Len(_variables[1]) <= MaxStmts
            /\ UNCHANGED <<_tree, _variables>>
    /\ pos' = 1
    /\ pc' = "visit"
    /\ UNCHANGED <<module, _noname, sort, output>>

NextAgain == traverse \/ VisitAssign \/ VisitExpr \/ Return \/ traverse_again

SpecAgain == InitOn(AgainStatements) /\ [][NextAgain]_vars

-----------------------------------------------------------------------------
(* The vocabulary of the properties *)

(* The result list, empty before the first traversal *)
Descriptors == IF _variables = None THEN <<>> ELSE _variables[1]

(* The result list and the pending slot together *)
Held == Descriptors \o _noname

RECURSIVE NodeAt(_, _)
NodeAt(node, path) ==
    IF path = <<>> THEN node ELSE NodeAt(node.elts[path[1]], Tail(path))

(* The call a descriptor was created for and the statement that holds it *)
CallOf(d) == NodeAt(_tree[d.site.stmt].value, d.site.path)
StatementOf(d) == _tree[d.site.stmt]

(* The visit of statement i has returned *)
Completed(i) == pc # "new" /\ i < pos

(* The traversal has raised: the visit of the statement at pos did not return *)
Failed == pc \in {"raised", "raised_read"}

HasKeyword(call, kw) == \E i \in DOMAIN call.keywords : call.keywords[i].arg = kw
KeywordValue(call, kw) ==
    call.keywords[CHOOSE i \in DOMAIN call.keywords : call.keywords[i].arg = kw].value

IsCatalogCall(node) ==
    /\ node.kind = "Call"
    /\ node.func[1].kind \in {"Name", "Attribute"}
    /\ In(node.func[1].s, VALUE_CLASSES)

HasEnvironFalse(call) ==
    \E i \in DOMAIN call.keywords :
        call.keywords[i].arg = kw_environ /\ IsFalse(call.keywords[i].value)

(* The expression with every catalog call that carries environ=False taken out *)
RECURSIVE WithoutEnvironFalse(_)
WithoutEnvironFalse(node) ==
    IF node.kind = "Call"
    THEN IF IsCatalogCall(node) /\ HasEnvironFalse(node) THEN NameConstant(s_None) ELSE node
    ELSE [node EXCEPT !.elts = [i \in DOMAIN node.elts |-> WithoutEnvironFalse(node.elts[i])]]

RECURSIVE HasCatalogCall(_)
HasCatalogCall(node) ==
    \/ IsCatalogCall(node)
    \/ \E i \in DOMAIN node.elts : HasCatalogCall(node.elts[i])
    \/ /\ node.kind = "Call"
       /\ \/ HasCatalogCall(node.func[1])
          \/ \E i \in DOMAIN node.keywords : HasCatalogCall(node.keywords[i].value)

(* The string a keyword gives: a literal, or a name looked up in the tree *)
GivenText(d, node) ==
    IF node.kind = "Str" THEN node.s
    ELSE str(_resolve_variable(d, node, _tree, DefaultDepth))

(* The arguments of a call that give its default *)
DefaultArguments(call) ==
    (IF call.elts = <<>> THEN <<>> ELSE <<call.elts[1]>>)
        \o (IF HasKeyword(call, kw_default) THEN <<KeywordValue(call, kw_default)>> ELSE <<>>)

(* The statements of the tree that assign to the simple name id *)
AssignmentsTo(id) ==
    { i \in DOMAIN _tree :
        /\ _tree[i].kind = "Assign"
        /\ \E t \in DOMAIN _tree[i].targets :
                _tree[i].targets[t].kind = "Name" /\ _tree[i].targets[t].s = id }

(* The lines of a text *)
RECURSIVE Lines(_)
Lines(text) ==
    IF text = <<>> THEN <<>>
    ELSE IF \E i \in DOMAIN text : text[i] = "\n"
    THEN LET i == CHOOSE k \in DOMAIN text :
                        text[k] = "\n" /\ \A j \in 1..(k - 1) : text[j] # "\n"
         IN  <<SubSeq(text, 1, i - 1)>> \o Lines(SubSeq(text, i + 1, Len(text)))
    ELSE <<text>>

OutputLines == IF output = None THEN <<>> ELSE Lines(output[1])

IsPrefix(p, t) == Len(p) <= Len(t) /\ SubSeq(t, 1, Len(p)) = p

(* The qualified name an export line carries *)
ExportedName(line) == SubSeq(line, Len(s_export) + 1, Len(line) - 1)

(* Ordinal comparison of texts over the characters qualified names are made of *)
Alphabet ==
    <<"A", "B", "C", "D", "E", "F", "G", "H", "I", "J", "K", "L", "M", "N", "O", "P", "Q",
      "R", "S", "T", "U", "V", "W", "X", "Y", "Z", "_">>
Ord(c) == CHOOSE i \in DOMAIN Alphabet : Alphabet[i] = c

RECURSIVE TextLeq(_, _)
TextLeq(s, t) ==
    IF s = <<>> THEN TRUE
    ELSE IF t = <<>> THEN FALSE
    ELSE IF s[1] = t[1] THEN TextLeq(Tail(s), Tail(t))
    ELSE Ord(s[1]) < Ord(t[1])

RECURSIVE PathBefore(_, _)
PathBefore(p, q) ==
    IF p = <<>> THEN q # <<>>
    ELSE IF q = <<>> THEN FALSE
    ELSE IF p[1] = q[1] THEN PathBefore(Tail(p), Tail(q))
    ELSE p[1] < q[1]

(* Call site s stands above call site t in the source *)
SiteBefore(s, t) ==
    s.stmt < t.stmt \/ (s.stmt = t.stmt /\ PathBefore(s.path, t.path))

-----------------------------------------------------------------------------
(* Properties *)

(* C1: a recognized call that carries environ=False is dropped whatever its  *)
(* other arguments are and wherever environ stands among them: no descriptor *)
(* of it is in the result list or the pending slot, and the finder is in the *)
(* state it would be in had the call not been there                          *)
C1_EnvironFalseDropped ==
    pc # "new" =>
        LET stripped == [i \in DOMAIN _tree |->
                            [_tree[i] EXCEPT !.value = WithoutEnvironFalse(@)]]
            k == IF Failed THEN pos ELSE pos - 1
            absent == visit_body(module, Finder(<<>>, None, FALSE), stripped, 1, k, _tree)
        IN  /\ \A j \in DOMAIN Held : ~HasEnvironFalse(CallOf(Held[j]))
            /\ absent.exc = Failed
            /\ absent.variables = Descriptors
            /\ absent.noname = _noname

(* C2: a call of any constructor of the catalog with no argument, as the    *)
(* right-hand side of an assignment to the simple name T, never fails and   *)
(* yields exactly one descriptor: named DJANGO_T, without default, of type  *)
(* String for Value and else the constructor's name without its Value suffix *)
C2_NoArgumentCall ==
    \A i \in DOMAIN _tree :
        LET stmt == _tree[i]
            site == [stmt |-> i, path |-> <<>>]
            mine == {j \in DOMAIN Descriptors : Descriptors[j].site = site}
        IN  ( /\ stmt.kind = "Assign"
              /\ stmt.targets[1].kind = "Name"
              /\ IsCatalogCall(stmt.value)
              /\ stmt.value.elts = <<>>
              /\ stmt.value.keywords = <<>> )
            => /\ ~(Failed /\ pos = i)
               /\ Completed(i) =>
                    /\ Cardinality(mine) = 1
                    /\ \A j \in mine :
                        /\ EnvVar_name(Descriptors[j])
                                = s_DJANGO \o <<"_">> \o stmt.targets[1].s
                        /\ Descriptors[j].default = PyNone
                        /\ IF stmt.value.func[1].s = s_Value
                           THEN EnvVar_type(Descriptors[j]) = s_String
                           ELSE EnvVar_type(Descriptors[j]) \o s_Value
                                    = stmt.value.func[1].s

C2_Witness ==
    /\ pc = "done"
    /\ Len(_tree) = MaxStmts
    /\ \A i \in DOMAIN _tree :
        /\ _tree[i].kind = "Assign"
        /\ IsCatalogCall(_tree[i].value)
        /\ _tree[i].value.keywords = <<>>
    /\ _tree[1].value.func[1].s = c_Value
    /\ _tree[2].value.func[1].s = c_SingleNestedTupleValue
    /\ Len(Descriptors) = MaxStmts
    /\ EnvVar_type(Descriptors[2]) = <<"S", "i", "n", "g", "l", "e", "N", "e", "s", "t",
                                       "e", "d", "T", "u", "p", "l", "e">>

(* C3: every descriptor of the result list has a non-empty environ_name: one *)
(* given by the call, not empty, or the simple name an assignment targets    *)
C3_EmittedAreNamed ==
    \A j \in DOMAIN Descriptors :
        LET d == Descriptors[j]
        IN  /\ d.environ_name.tag = "str"
            /\ d.environ_name.s # <<>>
            /\ IF HasKeyword(CallOf(d), kw_environ_name)
               THEN /\ GivenText(d, KeywordValue(CallOf(d), kw_environ_name)) # <<>>
                    /\ d.environ_name.s
                            = GivenText(d, KeywordValue(CallOf(d), kw_environ_name))
               ELSE \E i \in DOMAIN _tree :
                        /\ _tree[i].kind = "Assign"
                        /\ _tree[i].targets[1].kind = "Name"
                        /\ _tree[i].targets[1].s = d.environ_name.s

(* A declaration whose target is no simple name failed after another was emitted *)
C3_Witness ==
    /\ pc = "raised"
    /\ _tree[pos].kind = "Assign"
    /\ _tree[pos].targets[1].kind = "Attribute"
    /\ IsCatalogCall(_tree[pos].value)
    /\ ~HasKeyword(_tree[pos].value, kw_environ_name)
    /\ Len(Descriptors) = 1
    /\ \A j \in DOMAIN Descriptors : Descriptors[j].site.stmt < pos

(* C4: a tree that holds no call of a constructor of the catalog is analysed *)
(* without failure, gives no descriptor, and its output is the empty string  *)
C4_NoCatalogCall ==
    (\A i \in DOMAIN _tree : ~HasCatalogCall(_tree[i].value))
        => /\ ~Failed
           /\ Descriptors = <<>>
           /\ _noname = None
           /\ pc = "dumped" => output = Some(<<>>)

(* C5: the qualified name of an emitted descriptor is <prefix>_<name>: name *)
(* is what environ_name gives when the call has it and else the target of   *)
(* the assignment that holds the call, prefix is what environ_prefix gives  *)
(* when the call has it and else DJANGO; no call is emitted twice           *)
C5_QualifiedName ==
    \A j \in DOMAIN Descriptors :
        LET d == Descriptors[j]
            call == CallOf(d)
            stmt == StatementOf(d)
            prefix == IF HasKeyword(call, kw_environ_prefix)
                      THEN GivenText(d, KeywordValue(call, kw_environ_prefix))
                      ELSE s_DJANGO
        IN  /\ IF HasKeyword(call, kw_environ_name)
               THEN EnvVar_name(d)
                        = prefix \o <<"_">> \o GivenText(d, KeywordValue(call, kw_environ_name))
               ELSE /\ stmt.kind = "Assign"
                    /\ stmt.targets[1].kind = "Name"
                    /\ EnvVar_name(d) = prefix \o <<"_">> \o stmt.targets[1].s
            /\ \A k \in DOMAIN Descriptors : Descriptors[k].site = d.site => k = j

C7_SortedOutput ==
    (pc = "dumped" /\ sort) =>
        /\ Len(OutputLines) = 2 * Len(Descriptors)
        /\ \A i \in 1..(Len(Descriptors) - 1) :
            TextLeq(ExportedName(OutputLines[2 * i]), ExportedName(OutputLines[2 * i + 2]))

(* C8: a descriptor whose call gives no default, or gives as default a bare *)
(* name that nothing in the tree assigns, has the comment line              *)
(* '# <prefix>_<name>: <TypeLabel>' directly followed by the extras         *)
C8_NoDefaultSegment ==
    pc = "dumped" =>
        \A j \in DOMAIN Descriptors :
            LET d == Descriptors[j]
                given == DefaultArguments(CallOf(d))
            IN  (\A k \in DOMAIN given :
                    given[k].kind = "Name" /\ AssignmentsTo(given[k].s) = {})
                => /\ OutputLines[2 * j - 1]
                        = s_hash \o EnvVar_name(d) \o s_colon \o EnvVar_type(d)
                            \o EnvVar_extra(d)
                   /\ d.default = PyNone

(* Both cases at once: a call without default, a default nothing assigns *)
C8_Witness ==
    /\ pc = "dumped"
    /\ Len(Descriptors) = 2
    /\ DefaultArguments(CallOf(Descriptors[1])) = <<>>
    /\ DefaultArguments(CallOf(Descriptors[2])) = <<Load(Y)>>
    /\ OutputLines[3] = <<"#", " ", "P", "_", "A", ":", " ", "R", "e", "g", "e", "x", " ",
                          "(", "r", "e", "g", "e", "x", "=", "N", "o", "n", "e", ")">>

(* C9: when the default of a call is a bare name N and the tree assigns to  *)
(* the simple name N, the descriptor's default is 'Variable: ' followed by  *)
(* the normalised source of one such assignment, target and value           *)
C9_VariableDefault ==
    \A j \in DOMAIN Held :
        LET d == Held[j]
            given == DefaultArguments(CallOf(d))
        IN  (given # <<>> /\ given[1].kind = "Name" /\ AssignmentsTo(given[1].s) # {})
            => \E i \in AssignmentsTo(given[1].s) :
                    d.default =
                        PyStr(s_Variable
                                \o join(<<" ", "=", " ">>,
                                        [t \in DOMAIN _tree[i].targets |->
                                            source(_tree[i].targets[t])]
                                        \o <<source(_tree[i].value)>>))

(* The name is assigned a call of a constructor of the catalog *)
C9_Witness ==
    /\ pc = "done"
    /\ Len(Descriptors) = 2
    /\ IsCatalogCall(StatementOf(Descriptors[1]).value)
    /\ StatementOf(Descriptors[1]).targets = <<Store(X)>>
    /\ DefaultArguments(CallOf(Descriptors[2])) = <<Load(X)>>
    /\ Descriptors[2].default
            = PyStr(s_Variable \o <<"X", " ", "=", " ">> \o s_values \o <<".">>
                        \o c_BooleanValue \o <<"(">> \o s_True \o <<")">>)

(* C10: for ListValue, BackendsValue, TupleValue and SetValue a default that  *)
(* is a list, tuple or set literal is rendered as the texts of its elements   *)
(* joined by the separator of the descriptor, which is ',' unless the call    *)
(* gives one; a literal without elements is '[]', '()' or '{}' by the kind    *)
C10_SequenceDefault ==
    \A j \in DOMAIN Held :
        LET d == Held[j]
            call == CallOf(d)
            given == DefaultArguments(call)
            separator == IF HasKeyword(call, kw_separator)
                         THEN KeywordValue(call, kw_separator).s
                         ELSE s_comma
        IN  ( /\ d._cls_name \in {c_ListValue, c_BackendsValue, c_TupleValue, c_SetValue}
              /\ Len(given) = 1
              /\ IsSequenceLiteral(given[1]) )
            => /\ extra_get(d, kw_separator) = PyStr(separator)
               /\ d.default =
                    PyStr(IF given[1].elts = <<>>
                          THEN CASE d._cls_name = c_TupleValue -> s_parens
                                 [] d._cls_name = c_SetValue -> s_braces
                                 [] OTHER -> s_brackets
                          ELSE join(separator,
                                    [e \in DOMAIN given[1].elts |->
                                        EnvVar_node_to_source(given[1].elts[e])]))

(* C16: a failure is all or nothing: after a traversal that raised, dump has *)
(* returned no text and the property variables, read by the caller, holds    *)
(* none of the descriptors collected before the failing declaration          *)
C16_AllOrNothing ==
    /\ Failed => output = None
    /\ pc = "raised_read" => Descriptors = <<>>

(* The text a keyword of the call gives, as the descriptor renders it *)
KeywordText(call, kw) ==
    IF KeywordValue(call, kw).kind = "Str" THEN KeywordValue(call, kw).s
    ELSE source(KeywordValue(call, kw))

(* C11: for SingleNestedListValue and SingleNestedTupleValue a default that is *)
(* a list or tuple of sequences is rendered as the elements of each inner      *)
(* sequence joined by separator (',' unless given), the results joined by      *)
(* seq_separator (';' unless given); without elements it is '[]' or '()'       *)
C11_NestedDefault ==
    \A j \in DOMAIN Held :
        LET d == Held[j]
            call == CallOf(d)
            given == DefaultArguments(call)
            separator == IF HasKeyword(call, kw_separator)
                         THEN KeywordText(call, kw_separator) ELSE s_comma
            seq_separator == IF HasKeyword(call, kw_seq_separator)
                             THEN KeywordText(call, kw_seq_separator) ELSE s_semicolon
            inner(seq) == join(separator,
                               [e \in DOMAIN seq.elts |-> EnvVar_node_to_source(seq.elts[e])])
        IN  ( /\ d._cls_name \in {c_SingleNestedListValue, c_SingleNestedTupleValue}
              /\ Len(given) = 1
              /\ given[1].kind \in {"List", "Tuple"}
              /\ \A e \in DOMAIN given[1].elts : IsSequenceLiteral(given[1].elts[e]) )
            => d.default =
                    PyStr(IF given[1].elts = <<>>
                          THEN IF d._cls_name = c_SingleNestedTupleValue
                               THEN s_parens ELSE s_brackets
                          ELSE join(seq_separator,
                                    [e \in DOMAIN given[1].elts |-> inner(given[1].elts[e])]))

(* The extra parameters of each kind in their declared order, with the texts *)
(* of their defaults                                                         *)
KindExtras(cls_name) ==
    CASE cls_name = c_RegexValue -> << <<kw_regex, s_None>> >>
      [] cls_name = c_PathValue -> << <<kw_checks_exists, s_True>> >>
      [] cls_name \in {c_SingleNestedListValue, c_SingleNestedTupleValue} ->
            << <<kw_separator, s_comma>>, <<kw_seq_separator, s_semicolon>> >>
      [] cls_name \in {c_ListValue, c_TupleValue, c_SetValue, c_BackendsValue} ->
            << <<kw_separator, s_comma>> >>
      [] OTHER -> <<>>

(* ' (<param>=<value>)' for each extra parameter: the value the call gives, *)
(* as keyword or, for the pattern, as second positional argument, else the  *)
(* default of the kind                                                      *)
RECURSIVE ExpectedExtras(_, _)
ExpectedExtras(call, extras) ==
    IF extras = <<>> THEN <<>>
    ELSE <<" ", "(">> \o extras[1][1] \o <<"=">>
            \o (IF HasKeyword(call, extras[1][1]) THEN KeywordText(call, extras[1][1])
                ELSE IF extras[1][1] = kw_regex /\ Len(call.elts) >= 2
                THEN EnvVar_node_to_source(call.elts[2])
                ELSE extras[1][2])
            \o <<")">> \o ExpectedExtras(call, Tail(extras))

(* The descriptor visit_Call makes of a call, named or pending *)
DescriptorOf(call, site) ==
    LET st == visit_Call(module, Finder(<<>>, None, FALSE), call, site, _tree)
    IN  (st.variables \o st.noname)[1]

(* C12: a descriptor of a kind with extra parameters lists each of them once, *)
(* in declared order, as ' (<param>=<value>)' after the default segment of    *)
(* its comment line, with or without default; the value is the one the call  *)
(* gives, else the default of the kind. A pattern given to RegexValue as     *)
(* second positional argument makes the descriptor the keyword regex makes   *)
C12_ExtraParameters ==
    \A j \in DOMAIN Descriptors :
        LET d == Descriptors[j]
            call == CallOf(d)
            extras == ExpectedExtras(call, KindExtras(d._cls_name))
        IN  /\ EnvVar_extra(d) = extras
            /\ pc = "dumped" =>
                    OutputLines[2 * j - 1] =
                        s_hash \o EnvVar_name(d) \o s_colon \o EnvVar_type(d)
                            \o (IF bool(d.default) THEN <<"=">> \o d.default.s ELSE <<>>)
                            \o extras
            /\ (d._cls_name = c_RegexValue /\ Len(call.elts) = 2)
                => [d EXCEPT !.environ_name = PyNone] =
                        DescriptorOf(
                            [call EXCEPT !.elts = <<call.elts[1]>>,
                                         !.keywords = Append(@, keyword(kw_regex, call.elts[2]))],
                            d.site)

(* A nested kind without default and a pattern given by position, dumped *)
C12_Witness ==
    /\ pc = "dumped"
    /\ Len(Descriptors) = 2
    /\ OutputLines[1] = s_hash \o s_DJANGO \o <<"_", "A", ":", " ">>
                            \o <<"S", "i", "n", "g", "l", "e", "N", "e", "s", "t", "e", "d",
                                  "T", "u", "p", "l", "e">>
                            \o <<" ", "(", "s", "e", "p", "a", "r", "a", "t", "o", "r", "=",
                                  ",", ")", " ", "(", "s", "e", "q", "_", "s", "e", "p", "a",
                                  "r", "a", "t", "o", "r", "=", ";", ")">>
    /\ Len(CallOf(Descriptors[2]).elts) = 2
    /\ OutputLines[3] = s_hash \o s_DJANGO \o <<"_", "B", ":", " ", "R", "e", "g", "e", "x",
                                                  "=", "X", " ", "(", "r", "e", "g", "e", "x",
                                                  "=", "P", ")">>

(* The calls NodeVisitor reaches in an expression: it does not enter a call *)
RECURSIVE VisitedCalls(_, _)
VisitedCalls(node, path) ==
    IF node.kind = "Call" THEN {path}
    ELSE UNION {VisitedCalls(node.elts[e], Append(path, e)) : e \in DOMAIN node.elts}

(* The calls of constructors of the catalog the traversal reaches: [stmt, path] *)
Declarations ==
    { site \in UNION {[stmt : {i}, path : VisitedCalls(_tree[i].value, <<>>)] :
                        i \in DOMAIN _tree} :
        IsCatalogCall(NodeAt(_tree[site.stmt].value, site.path)) }

DeclarationAt(site) == NodeAt(_tree[site.stmt].value, site.path)

(* The analysis never gets past the declaration and holds no descriptor of it *)
Fatal(site) ==
    /\ ~Completed(site.stmt)
    /\ \A j \in DOMAIN Held : Held[j].site # site

Universal ==
    {kw_default, kw_environ_name, kw_environ_prefix, kw_environ_required, kw_alias,
     kw_converter, kw_environ}

(* Keyword k of the call is neither universal nor an extra parameter of its kind *)
UnknownKeyword(call, k) ==
    /\ call.keywords[k].arg \notin Universal
    /\ \A x \in DOMAIN KindExtras(call.func[1].s) :
            KindExtras(call.func[1].s)[x][1] # call.keywords[k].arg

(* The number of positional arguments the kind of the call accepts *)
Positions(call) == IF call.func[1].s = c_RegexValue THEN 2 ELSE 1

(* C13 as stated: a call of the catalog with a keyword that is neither        *)
(* universal nor an extra parameter of its kind, or with more positional      *)
(* arguments than its kind accepts, is fatal; position 0 gives the default    *)
C13_UnknownArgument ==
    /\ \A site \in Declarations :
            ( \/ \E k \in DOMAIN DeclarationAt(site).keywords :
                    UnknownKeyword(DeclarationAt(site), k)
              \/ Len(DeclarationAt(site).elts) > Positions(DeclarationAt(site)) )
            => Fatal(site)
    /\ \A j \in DOMAIN Held :
            (CallOf(Held[j]).elts # <<>> /\ CallOf(Held[j]).elts[1].kind = "Str")
            => Held[j].default = PyStr(CallOf(Held[j]).elts[1].s)

(* C13: such a call is fatal when it does not carry environ=False; position *)
(* 0 gives the default                                                      *)
C13_UnknownArgumentDeclared ==
    /\ \A site \in Declarations :
            ( /\ ~HasEnvironFalse(DeclarationAt(site))
              /\ \/ \E k \in DOMAIN DeclarationAt(site).keywords :
                        UnknownKeyword(DeclarationAt(site), k)
                 \/ Len(DeclarationAt(site).elts) > Positions(DeclarationAt(site)) )
            => Fatal(site)
    /\ \A j \in DOMAIN Held :
            (CallOf(Held[j]).elts # <<>> /\ CallOf(Held[j]).elts[1].kind = "Str")
            => Held[j].default = PyStr(CallOf(Held[j]).elts[1].s)

(* A third positional argument of RegexValue failed after a declaration with *)
(* one positional argument was emitted                                       *)
C13_Witness ==
    /\ pc = "raised"
    /\ pos = 2
    /\ Len(Descriptors) = 1
    /\ Descriptors[1].default = PyStr(X)
    /\ _tree[2].value.func[1].s = c_RegexValue
    /\ Len(_tree[2].value.elts) = 3

(* Keyword k of the call gives a name or a prefix by a reference that the *)
(* resolver does not resolve                                              *)
Unresolved(call, k) ==
    /\ call.keywords[k].arg \in {kw_environ_name, kw_environ_prefix}
    /\ call.keywords[k].value.kind = "Name"
    /\ _resolve_variable(EnvVar("EnvVar", call.func[1].s, <<>>), call.keywords[k].value,
                         _tree, DefaultDepth) = PyNone

(* C14 as stated: a call whose environ_name or environ_prefix is a reference *)
(* the resolver does not resolve is fatal: no descriptor of it is emitted    *)
C14_UnresolvedReference ==
    \A site \in Declarations :
        (\E k \in DOMAIN DeclarationAt(site).keywords : Unresolved(DeclarationAt(site), k))
        => Fatal(site)

(* C14: such a call is fatal when it does not carry environ=False *)
C14_UnresolvedReferenceDeclared ==
    \A site \in Declarations :
        ( /\ ~HasEnvironFalse(DeclarationAt(site))
          /\ \E k \in DOMAIN DeclarationAt(site).keywords :
                Unresolved(DeclarationAt(site), k) )
        => Fatal(site)

(* A prefix that nothing assigns failed after another declaration was emitted *)
C14_Witness ==
    /\ pc = "raised"
    /\ pos = 2
    /\ Len(Descriptors) = 1
    /\ _noname = None
    /\ HasKeyword(_tree[2].value, kw_environ_prefix)
    /\ Unresolved(_tree[2].value, 1)
    /\ AssignmentsTo(Y) = {}

(* C15: a call whose only argument is a default that is a bare name nothing *)
(* assigns does not fail: its descriptor is emitted under the name of the   *)
(* target, without default                                                  *)
C15_UnresolvedDefault ==
    \A i \in DOMAIN _tree :
        LET stmt == _tree[i]
            given == DefaultArguments(stmt.value)
            mine == {j \in DOMAIN Descriptors :
                        Descriptors[j].site = [stmt |-> i, path |-> <<>>]}
        IN  ( /\ stmt.kind = "Assign"
              /\ stmt.targets[1].kind = "Name"
              /\ IsCatalogCall(stmt.value)
              /\ Len(stmt.value.elts) + Len(stmt.value.keywords) = 1
              /\ Len(given) = 1
              /\ given[1].kind = "Name"
              /\ AssignmentsTo(given[1].s) = {} )
            => /\ ~(Failed /\ pos = i)
               /\ Completed(i) =>
                    /\ Cardinality(mine) = 1
                    /\ \A j \in mine :
                        /\ EnvVar_name(Descriptors[j])
                                = s_DJANGO \o <<"_">> \o stmt.targets[1].s
                        /\ Descriptors[j].default = PyNone

(* Both forms: the name as positional and as keyword default *)
C15_Witness ==
    /\ pc = "done"
    /\ Len(Descriptors) = 2
    /\ CallOf(Descriptors[1]).elts = <<Load(X)>>
    /\ HasKeyword(CallOf(Descriptors[2]), kw_default)
    /\ KeywordValue(CallOf(Descriptors[2]), kw_default) = Load(X)
    /\ AssignmentsTo(X) = {}

(* The expression with environ_required, alias and converter taken out of *)
(* every call of the catalog                                              *)
RECURSIVE WithoutIgnored(_)
WithoutIgnored(node) ==
    IF node.kind = "Call"
    THEN IF IsCatalogCall(node)
         THEN LET kept(kw) == kw.arg \notin {kw_environ_required, kw_alias, kw_converter}
              IN  [node EXCEPT !.keywords = SelectSeq(@, kept)]
         ELSE node
    ELSE [node EXCEPT !.elts = [i \in DOMAIN node.elts |-> WithoutIgnored(node.elts[i])]]

(* C17: environ_required, alias and converter are accepted on every call of *)
(* the catalog and ignored: the finder is in the state it would be in had   *)
(* the calls been written without them                                      *)
C17_IgnoredKeywords ==
    pc # "new" =>
        LET stripped == [i \in DOMAIN _tree |->
                            [_tree[i] EXCEPT !.value = WithoutIgnored(@)]]
            k == IF Failed THEN pos ELSE pos - 1
            without == visit_body(module, Finder(<<>>, None, FALSE), stripped, 1, k, _tree)
        IN  /\ without.exc = Failed
            /\ without.variables = Descriptors
            /\ without.noname = _noname

(* The tree holds the chain N0 = N1, ..., N(k-1) = Nk, Nk = <not a name> *)
IsChain(k) ==
    /\ \A i \in 0..k :
            \E s \in DOMAIN _tree : AssignmentsTo(N(i)) = {s}
    /\ \A i \in 0..k : \A s \in AssignmentsTo(N(i)) :
            IF i < k THEN _tree[s].value = Load(N(i + 1))
            ELSE _tree[s].value.kind \in {"Str", "Num"}

(* The text of the expression that ends the chain *)
EndText(k) ==
    LET end == _tree[CHOOSE s \in AssignmentsTo(N(k)) : TRUE].value
    IN  IF end.kind = "Str" THEN end.s ELSE int_str(end.n)

(* What the claim gives for N0 on a chain of k hops at a depth *)
Followed(k, depth) == IF depth >= k THEN PyStr(EndText(k)) ELSE PyStr(N(depth + 1))

MaxDepth == MaxChain + 1

(* C18: on a chain N0 = N1, ..., Nk = <expression> the resolver gives for N0 *)
(* the rendered expression at a depth of k or more and the name N(depth+1)  *)
(* at a smaller depth; a declaration is resolved at depth 3                 *)
C18_ChainDepth ==
    \A k \in 0..Len(_tree) :
        IsChain(k) =>
            /\ \A depth \in 0..MaxDepth :
                    _resolve_variable(EnvVar("EnvVar", c_Value, <<>>), Load(N(0)), _tree, depth)
                        = Followed(k, depth)
            /\ \A j \in DOMAIN Descriptors :
                    /\ HasKeyword(CallOf(Descriptors[j]), kw_environ_name)
                            => Descriptors[j].environ_name = Followed(k, 3)
                    /\ HasKeyword(CallOf(Descriptors[j]), kw_environ_prefix)
                            => Descriptors[j].environ_prefix = Followed(k, 3)

(* A chain one hop longer than the default depth: the declaration is named *)
(* by the name the resolver stopped at                                     *)
C18_Witness ==
    /\ pc = "done"
    /\ IsChain(4)
    /\ Len(Descriptors) = 1
    /\ HasKeyword(CallOf(Descriptors[1]), kw_environ_name)
    /\ Descriptors[1].environ_name = PyStr(N(4))

(* C19: the resolver makes at most depth + 1 lookups for every name of the *)
(* tree, cycles included, and the analysis comes to an end                 *)
C19_Terminates ==
    /\ [](\A i \in 0..MaxDepth : \A depth \in 0..MaxDepth :
            _resolve_variable_calls(Load(N(i)), _tree, depth) <= depth + 1)
    /\ <>(pc \notin {"new", "visit"})

(* The cycle N0 = N1, N1 = N0 took all the lookups the default depth allows *)
C19_Witness ==
    /\ pc = "done"
    /\ \E s \in AssignmentsTo(N(0)) : _tree[s].value = Load(N(1))
    /\ \E s \in AssignmentsTo(N(1)) : _tree[s].value = Load(N(0))
    /\ _resolve_variable_calls(Load(N(0)), _tree, DefaultDepth) = DefaultDepth + 1
    /\ Len(Descriptors) = 1
    /\ EnvVar_name(Descriptors[1]) \in {s_DJANGO \o <<"_">> \o N(0), N(0) \o <<"_">> \o A}

(* C20: a name assigned several times is resolved from the last of its *)
(* assignments in the scan of the tree                                 *)
C20_LastAssignment ==
    \A j \in DOMAIN Descriptors :
        \A kw \in {kw_environ_name, kw_environ_prefix} :
            LET call == CallOf(Descriptors[j])
                found == assigns_to(_tree, KeywordValue(call, kw).s)
                got == IF kw = kw_environ_name THEN Descriptors[j].environ_name
                       ELSE Descriptors[j].environ_prefix
            IN  ( /\ HasKeyword(call, kw)
                  /\ KeywordValue(call, kw).kind = "Name"
                  /\ Len(found) > 1
                  /\ found[Len(found)].value.kind = "Str" )
                => got = PyStr(found[Len(found)].value.s)

(* C21: a default given as a bare name is resolved along the chain of the *)
(* name: on a chain N0 = N1, ..., Nk = <expression> no longer than the     *)
(* depth bound, the default N0 and the default N1 give the same default    *)
C21_DefaultFollowsChain ==
    \A k \in 1..DefaultDepth :
        IsChain(k) =>
            \A j \in DOMAIN Descriptors :
                LET call == CallOf(Descriptors[j])
                    next == [call EXCEPT !.keywords = <<keyword(kw_default, Load(N(1)))>>]
                IN  call.keywords = <<keyword(kw_default, Load(N(0)))>>
                    => Descriptors[j].default
                            = DescriptorOf(next, Descriptors[j].site).default

(* The positional arguments, at any depth, of the calls in an expression *)
(* whose callee is not of the catalog: wrapped says the node is one       *)
RECURSIVE Wrapped(_, _, _)
Wrapped(node, path, wrapped) ==
    (IF wrapped THEN {path} ELSE {})
    \cup UNION { Wrapped(node.elts[e], Append(path, e),
                         wrapped \/ (node.kind = "Call" /\ ~IsCatalogCall(node))) :
                    e \in DOMAIN node.elts }

(* C22: a call whose callee is not of the catalog is traversed like any   *)
(* other node: a call of the catalog among its arguments has a descriptor *)
(* once its statement is visited, and a callee that is neither a name nor *)
(* an attribute does not make the visit of its statement fail             *)
C22_OtherCalleeTraversed ==
    \A i \in DOMAIN _tree :
        /\ Completed(i) =>
                \A path \in Wrapped(_tree[i].value, <<>>, FALSE) :
                    ( /\ IsCatalogCall(NodeAt(_tree[i].value, path))
                      /\ ~HasEnvironFalse(NodeAt(_tree[i].value, path)) )
                    => \E j \in DOMAIN Held : Held[j].site = [stmt |-> i, path |-> path]
        /\ ( /\ _tree[i].value.kind = "Call"
             /\ _tree[i].value.func[1].kind \notin {"Name", "Attribute"}
             /\ ~HasCatalogCall(_tree[i].value) )
            => ~(Failed /\ pos = i)

(* C23: a descriptor whose call gives no name is named after the target of *)
(* the assignment that holds its call and after nothing else, so a call    *)
(* outside any assignment is never emitted; no descriptor is pending when  *)
(* the visit of an assignment has completed                                *)
C23_NamedByOwnAssignment ==
    /\ \A j \in DOMAIN Descriptors :
            ~HasKeyword(CallOf(Descriptors[j]), kw_environ_name)
            => /\ StatementOf(Descriptors[j]).kind = "Assign"
               /\ Descriptors[j].environ_name
                    = PyStr(StatementOf(Descriptors[j]).targets[1].s)
    /\ \A i \in DOMAIN _tree :
            (_tree[i].kind = "Assign" /\ pc = "visit" /\ pos = i + 1) => _noname = None

(* The call with its keyword default given as the positional argument, *)
(* which is consumed after every keyword                                *)
DefaultLast(call) ==
    LET other(kw) == kw.arg # kw_default
    IN  [call EXCEPT !.elts = <<KeywordValue(call, kw_default)>>,
                     !.keywords = SelectSeq(@, other)]

(* C24: the default of a descriptor of a sequence kind is joined with the *)
(* separators its extra annotation reports, wherever the call gives the   *)
(* default: the keyword default, before or after the separators, makes    *)
(* the default and the annotation the positional default makes            *)
C24_SeparatorOrder ==
    \A j \in DOMAIN Held :
        LET d == Held[j]
            call == CallOf(d)
        IN  ( /\ IsListEnvVar(d.cls)
              /\ HasKeyword(call, kw_default)
              /\ call.elts = <<>> )
            => /\ d.default = DescriptorOf(DefaultLast(call), d.site).default
               /\ EnvVar_extra(d) = EnvVar_extra(DescriptorOf(DefaultLast(call), d.site))

(* C25: the list a traversal leaves depends on the tree alone: when a *)
(* traversal has returned or raised, the first or a later one of the   *)
(* finder, the list is the one a new finder has on that tree, and the  *)
(* traversal raised exactly when that of the new finder does           *)
C25_FreshEachTraversal ==
    pc \in {"done", "raised"} =>
        LET k == IF Failed THEN pos ELSE pos - 1
            fresh == visit_body(module, Finder(<<>>, None, FALSE), _tree, 1, k, _tree)
        IN  /\ Descriptors = fresh.variables
            /\ Failed = fresh.exc

(* C26: when the traversal has returned, every call of the catalog that  *)
(* does not carry environ=False has exactly one descriptor in the list,  *)
(* and the list holds nothing else                                      *)
C26_OneDescriptorEach ==
    (pc \notin {"new", "visit"} /\ ~Failed) =>
        LET declared == {site \in Declarations : ~HasEnvironFalse(DeclarationAt(site))}
        IN  /\ \A site \in declared :
                    Cardinality({j \in DOMAIN Descriptors : Descriptors[j].site = site}) = 1
            /\ Len(Descriptors) = Cardinality(declared)

====
